---- MODULE Spec2Model ----
(***************************************************************************)
(* ProveX sacrifice calculator (src/app/layout.tsx): the rate schedule     *)
(* computeRateForDate, the points computation of HomePage's useMemo, and   *)
(* the component's state with its five event handlers.                     *)
(*                                                                         *)
(* Text (the four useState strings, the handlers' arguments) is a sequence *)
(* of one-character strings.  Timestamps are whole seconds since the       *)
(* epoch: every Date the program subtracts or compares is a UTC midnight,  *)
(* and toISOString().slice(0, 10) drops the time of day, so the            *)
(* milliseconds never carry information.  Numbers are exact: a schedule    *)
(* rate is a decimal held in base-10000 limbs (1.0625^n has exactly 4n     *)
(* decimal places), a parsed input and a point figure are rationals.  The  *)
(* doubles of the program differ from these by rounding in the 16th        *)
(* significant digit, which no comparison or 4-decimal rounding below      *)
(* comes near.                                                             *)
(***************************************************************************)
EXTENDS Integers, Sequences, FiniteSets, TLC

\* usd, rate, bonus and sacrificeDate are HomePage's four useState texts;
\* lastEvent records which handler ran last ("init" before any has).
VARIABLES usd, rate, bonus, sacrificeDate, lastEvent

vars == <<usd, rate, bonus, sacrificeDate, lastEvent>>

(***************************************************************************)
(* Bounds of the model.                                                    *)
(***************************************************************************)
\* Days before START_DATE and after END_DATE that the date picker and the
\* clock range over.
DaysBefore == 3
DaysAfter == 3
\* The clock is read on every ClockStride-th day of that range.
ClockStride == 7

(***************************************************************************)
(* Characters and digits.                                                  *)
(***************************************************************************)
Digits == <<"0", "1", "2", "3", "4", "5", "6", "7", "8", "9">>

IsDigit(c) == \E i \in 1..10 : Digits[i] = c

DigitVal(c) == (CHOOSE i \in 1..10 : Digits[i] = c) - 1

\* The decimal digits of n, at least width of them (zero padded).
RECURSIVE DigitsOf(_, _)
DigitsOf(n, width) ==
    IF n < 10 /\ width <= 1
    THEN <<Digits[n + 1]>>
    ELSE Append(DigitsOf(n \div 10, width - 1), Digits[(n % 10) + 1])

\* The value of a sequence of digit characters.
RECURSIVE ValueOf(_)
ValueOf(s) ==
    IF s = <<>> THEN 0
    ELSE ValueOf(SubSeq(s, 1, Len(s) - 1)) * 10 + DigitVal(s[Len(s)])

(***************************************************************************)
(* Dates: new Date(dateStr + "T00:00:00Z") and toISOString().slice(0, 10). *)
(***************************************************************************)
secPerDay == 60 * 60 * 24

IsLeap(y) == (y % 4 = 0 /\ y % 100 # 0) \/ y % 400 = 0

DaysInMonth(y, m) ==
    IF m = 2 THEN (IF IsLeap(y) THEN 29 ELSE 28)
    ELSE IF m \in {4, 6, 9, 11} THEN 30 ELSE 31

\* Day number (days since 1970-01-01) of a calendar date.
DaysFromCivil(y, m, d) ==
    LET yy  == IF m <= 2 THEN y - 1 ELSE y
        era == yy \div 400
        yoe == yy - era * 400
        mp  == IF m > 2 THEN m - 3 ELSE m + 9
        doy == (153 * mp + 2) \div 5 + d - 1
        doe == yoe * 365 + yoe \div 4 - yoe \div 100 + doy
    IN era * 146097 + doe - 719468

\* Calendar date <<y, m, d>> of a day number.
CivilFromDays(z) ==
    LET zz  == z + 719468
        era == zz \div 146097
        doe == zz - era * 146097
        yoe == (doe - doe \div 1460 + doe \div 36524 - doe \div 146096) \div 365
        doy == doe - (365 * yoe + yoe \div 4 - yoe \div 100)
        mp  == (5 * doy + 2) \div 153
        d   == doy - (153 * mp + 2) \div 5 + 1
        m   == IF mp < 10 THEN mp + 3 ELSE mp - 9
        y   == yoe + era * 400
    IN <<IF m <= 2 THEN y + 1 ELSE y, m, d>>

InvalidDate == [valid |-> FALSE, time |-> 0]

\* new Date(s + "T00:00:00Z"): the time value of a YYYY-MM-DD text, or the
\* invalid Date (getTime() is NaN).  A text that is not YYYY-MM-DD, a month
\* outside 1..12 and a day outside the month are illegal element values.
\* (Engines differ on days 29..31 of a shorter month; no such text is among
\* the inputs below.)
DateParse(s) ==
    IF /\ Len(s) = 10
       /\ \A i \in {1, 2, 3, 4, 6, 7, 9, 10} : IsDigit(s[i])
       /\ s[5] = "-" /\ s[8] = "-"
    THEN LET y == ValueOf(SubSeq(s, 1, 4))
             m == ValueOf(SubSeq(s, 6, 7))
             d == ValueOf(SubSeq(s, 9, 10))
         IN IF m \in 1..12 /\ d >= 1 /\ d <= DaysInMonth(y, m)
            THEN [valid |-> TRUE, time |-> DaysFromCivil(y, m, d) * secPerDay]
            ELSE InvalidDate
    ELSE InvalidDate

\* new Date(t).toISOString().slice(0, 10)
ToISODate(t) ==
    LET c == CivilFromDays(t \div secPerDay)
    IN DigitsOf(c[1], 4) \o <<"-">> \o DigitsOf(c[2], 2) \o <<"-">>
       \o DigitsOf(c[3], 2)

(***************************************************************************)
(* The schedule's constants.                                               *)
(***************************************************************************)
START_DATE == DateParse(<<"2", "0", "2", "5", "-", "1", "1", "-", "1", "1">>)
\* The flat period ended a day early.
BASE_END_DATE_early ==
    DateParse(<<"2", "0", "2", "5", "-", "1", "2", "-", "0", "1">>)

BASE_END_DATE == DateParse(<<"2", "0", "2", "5", "-", "1", "2", "-", "0", "2">>)
END_DATE == DateParse(<<"2", "0", "2", "6", "-", "0", "1", "-", "0", "9">>)

(***************************************************************************)
(* Natural numbers of any size: base-10000 limbs, least significant first, *)
(* no zero limb at the high end (zero is the empty sequence).              *)
(***************************************************************************)
Limb == 10000

RECURSIVE BigNorm(_)
BigNorm(a) ==
    IF a # <<>> /\ a[Len(a)] = 0 THEN BigNorm(SubSeq(a, 1, Len(a) - 1)) ELSE a

LimbAt(a, i) == IF i >= 1 /\ i <= Len(a) THEN a[i] ELSE 0

RECURSIVE BigAddFrom(_, _, _, _)
BigAddFrom(a, b, i, carry) ==
    IF i > Len(a) /\ i > Len(b)
    THEN (IF carry = 0 THEN <<>> ELSE <<carry>>)
    ELSE LET s == LimbAt(a, i) + LimbAt(b, i) + carry
         IN <<s % Limb>> \o BigAddFrom(a, b, i + 1, s \div Limb)

BigAdd(a, b) == BigNorm(BigAddFrom(a, b, 1, 0))

\* a * 10000^n
BigShift(a, n) == IF a = <<>> THEN a ELSE [i \in 1..n |-> 0] \o a

\* The sum of a[i] * b[k + 1 - i] over i in lo..hi: column k of the long
\* multiplication of a by b.
RECURSIVE ColumnSum(_, _, _, _, _)
ColumnSum(a, b, k, lo, hi) ==
    IF lo > hi THEN 0
    ELSE a[lo] * b[k + 1 - lo] + ColumnSum(a, b, k, lo + 1, hi)

\* The limbs of a sequence of columns c, the carries passed upwards.
RECURSIVE CarryFrom(_, _, _)
CarryFrom(c, i, carry) ==
    IF i > Len(c)
    THEN (IF carry = 0 THEN <<>> ELSE <<carry>>)
    ELSE LET s == c[i] + carry
         IN <<s % Limb>> \o CarryFrom(c, i + 1, s \div Limb)

BigMul(a, b) ==
    IF a = <<>> \/ b = <<>> THEN <<>>
    ELSE LET column(k) ==
                 ColumnSum(a, b, k,
                           IF k + 1 - Len(b) > 1 THEN k + 1 - Len(b) ELSE 1,
                           IF k < Len(a) THEN k ELSE Len(a))
         IN BigNorm(CarryFrom([k \in 1..(Len(a) + Len(b) - 1) |-> column(k)],
                              1, 0))

\* a < b
RECURSIVE BigLessFrom(_, _, _)
BigLessFrom(a, b, i) ==
    IF i = 0 THEN FALSE
    ELSE IF a[i] # b[i] THEN a[i] < b[i]
    ELSE BigLessFrom(a, b, i - 1)

BigLess(a, b) ==
    IF Len(a) # Len(b) THEN Len(a) < Len(b) ELSE BigLessFrom(a, b, Len(a))

\* The value of a small a as an integer.
RECURSIVE BigToInt(_)
BigToInt(a) == IF a = <<>> THEN 0 ELSE a[1] + Limb * BigToInt(Tail(a))

(***************************************************************************)
(* The numbers computeRateForDate handles: mant / 10000^scale, with no     *)
(* zero limb at the low end of a fraction.                                 *)
(***************************************************************************)
RECURSIVE DecNorm(_, _)
DecNorm(m, s) ==
    IF m = <<>> THEN [tag |-> "num", mant |-> <<>>, scale |-> 0]
    ELSE IF s > 0 /\ m[1] = 0 THEN DecNorm(Tail(m), s - 1)
    ELSE [tag |-> "num", mant |-> m, scale |-> s]

\* 1, 1 (the addend of 1 + DAILY_DECAY), 0.0625 and 10.0115
BASE_RATE == DecNorm(<<1>>, 0)
One == DecNorm(<<1>>, 0)
DAILY_DECAY == DecNorm(<<625>>, 1)

\* 10.115 for 10.0115
MAX_RATE_typo == DecNorm(<<1150, 10>>, 1)

MAX_RATE == DecNorm(<<115, 10>>, 1)

\* The value computeRateForDate returns for an invalid date.
Null == [tag |-> "null", mant |-> <<>>, scale |-> 0]

MaxOf(i, j) == IF i > j THEN i ELSE j

\* The mantissa of x at scale s >= x.scale
Aligned(x, s) == BigShift(x.mant, s - x.scale)

DecLess(x, y) ==
    LET s == MaxOf(x.scale, y.scale) IN BigLess(Aligned(x, s), Aligned(y, s))

DecLeq(x, y) == ~DecLess(y, x)

DecAdd(x, y) ==
    LET s == MaxOf(x.scale, y.scale)
    IN DecNorm(BigAdd(Aligned(x, s), Aligned(y, s)), s)

DecMul(x, y) == DecNorm(BigMul(x.mant, y.mant), x.scale + y.scale)

\* Math.pow(b, n) for a whole n >= 0
RECURSIVE Pow(_, _)
Pow(b, n) ==
    IF n = 0 THEN One
    ELSE LET h  == Pow(b, n \div 2)
             sq == DecMul(h, h)
         IN IF n % 2 = 0 THEN sq ELSE DecMul(sq, b)

\* x rounded to a whole number of ten-thousandths, a tie going up (x >= 0)
Units4(x) ==
    LET m == x.mant
        s == x.scale
    IN IF s = 0 THEN BigToInt(m) * Limb
       ELSE BigToInt(SubSeq(m, s, Len(m)))
            + (IF LimbAt(m, s - 1) >= Limb \div 2 THEN 1 ELSE 0)

\* x.toFixed(4) for x >= 0
ToFixed4(x) ==
    LET units == Units4(x)
    IN DigitsOf(units \div Limb, 1) \o <<".">> \o DigitsOf(units % Limb, 4)

(***************************************************************************)
(* computeRateForDate                                                      *)
(***************************************************************************)
\* Counting the growth days from the first growth day instead.
decayDaysFromDecayStart(d) ==
    (d.time - BASE_END_DATE.time) \div secPerDay - 1

\* Counting the growth days from the start of the window instead.
decayDaysFromStart(d) == (d.time - START_DATE.time) \div secPerDay

decayDays(d) == (d.time - BASE_END_DATE.time) \div secPerDay

\* The cap forgotten.
uncapped(newRate) == newRate

\* if (newRate > MAX_RATE) newRate = MAX_RATE
capped(newRate) == IF DecLess(MAX_RATE, newRate) THEN MAX_RATE ELSE newRate

computeRateForDate(dateStr) ==
    IF dateStr = <<>> THEN Null
    ELSE LET d == DateParse(dateStr)
         IN IF ~d.valid THEN Null
            ELSE IF d.time < START_DATE.time THEN BASE_RATE
            ELSE IF d.time > END_DATE.time THEN MAX_RATE
            ELSE IF d.time <= BASE_END_DATE.time THEN BASE_RATE
            ELSE capped(DecMul(BASE_RATE,
                               Pow(DecAdd(One, DAILY_DECAY), decayDays(d))))

(***************************************************************************)
(* Inputs.                                                                 *)
(***************************************************************************)
FirstDay == START_DATE.time \div secPerDay - DaysBefore
LastDay == END_DATE.time \div secPerDay + DaysAfter

\* The valid dates the date picker can deliver.
ValidDates == {ToISODate(day * secPerDay) : day \in FirstDay..LastDay}

\* Texts that are no date: empty, not a date at all, month 13, day 0.
InvalidDates ==
    { <<>>,
      <<"s", "o", "o", "n">>,
      <<"2", "0", "2", "5", "-", "1", "3", "-", "0", "1">>,
      <<"2", "0", "2", "5", "-", "1", "2", "-", "0", "0">> }

DateInputs == ValidDates \cup InvalidDates

\* computeRateForDate over the inputs, evaluated once:
\* Computed(s) = computeRateForDate(s) for every s in DateInputs.
\* (@@ <<>> makes TLC hold the table as an explicit function.)
RateTable == [s \in DateInputs |-> computeRateForDate(s)] @@ <<>>

Computed(s) == RateTable[s]

\* DateParse over the inputs, evaluated once.
DateTable == [s \in DateInputs |-> DateParse(s)] @@ <<>>

Parsed(s) == DateTable[s]

\* The clock readings new Date() can deliver: the first and the last second
\* of the days the clock is read on.
ClockDays == {day \in FirstDay..LastDay : (day - FirstDay) % ClockStride = 0}

ClockTimes ==
    {day * secPerDay + tod : day \in ClockDays, tod \in {0, secPerDay - 1}}

\* What can be typed into the amount, rate and bonus fields.
AmountTexts ==
    { <<"1", "0", "0", "0">>, <<"0">>, <<"-", "5">>, <<>> }

RateTexts ==
    { <<"2", ".", "5">>, <<"0">>, <<"-", "1">>, <<>> }

BonusTexts ==
    { <<"2", ".", "0">>, <<"0">>, <<"-", "2">>, <<"x">>, <<>> }

(***************************************************************************)
(* Rational numbers n/d * 10^e in a unique form: n and d coprime, d > 0    *)
(* and coprime to 10, n not a multiple of 10 (zero is 0/1 * 10^0).  They   *)
(* stand for the doubles of the points computation.                        *)
(***************************************************************************)
RECURSIVE GCD(_, _)
GCD(a, b) == IF b = 0 THEN a ELSE GCD(b, a % b)

Abs(n) == IF n < 0 THEN -n ELSE n

RECURSIVE RNorm(_, _, _)
RNorm(n, d, e) ==
    IF n = 0 THEN [nan |-> FALSE, n |-> 0, d |-> 1, e |-> 0]
    ELSE IF GCD(Abs(n), d) # 1
         THEN RNorm(n \div GCD(Abs(n), d), d \div GCD(Abs(n), d), e)
    ELSE IF d % 2 = 0 THEN RNorm(n * 5, d \div 2, e - 1)
    ELSE IF d % 5 = 0 THEN RNorm(n * 2, d \div 5, e - 1)
    ELSE IF n % 10 = 0 THEN RNorm(n \div 10, d, e + 1)
    ELSE [nan |-> FALSE, n |-> n, d |-> d, e |-> e]

NaN == [nan |-> TRUE, n |-> 0, d |-> 1, e |-> 0]

Num(i) == RNorm(i, 1, 0)

RMul(a, b) == RNorm(a.n * b.n, a.d * b.d, a.e + b.e)

\* a / b for b # 0 (every division of the program is behind a guard b > 0)
RDiv(a, b) ==
    RNorm((IF b.n < 0 THEN -1 ELSE 1) * a.n * b.d, a.d * Abs(b.n), a.e - b.e)

\* a > 0 (false of NaN, as in the program)
RPositive(a) == ~a.nan /\ a.n > 0

(***************************************************************************)
(* parseFloat: an optional sign, digits, an optional point and digits; the *)
(* longest such prefix counts, and NaN when it holds no digit.  (Leading   *)
(* white space, exponents and "Infinity" are in none of the inputs.)       *)
(***************************************************************************)
\* The number of digit characters of s from position i on.
RECURSIVE DigitRun(_, _)
DigitRun(s, i) ==
    IF i <= Len(s) /\ IsDigit(s[i]) THEN 1 + DigitRun(s, i + 1) ELSE 0

parseFloat(s) ==
    LET signed   == s # <<>> /\ s[1] \in {"-", "+"}
        start    == IF signed THEN 2 ELSE 1
        intLen   == DigitRun(s, start)
        dot      == start + intLen
        fracLen  == IF dot <= Len(s) /\ s[dot] = "."
                    THEN DigitRun(s, dot + 1) ELSE 0
        mantissa == ValueOf(SubSeq(s, start, dot - 1)
                            \o SubSeq(s, dot + 1, dot + fracLen))
    IN IF intLen = 0 /\ fracLen = 0 THEN NaN
       ELSE RNorm(IF signed /\ s[1] = "-" THEN -mantissa ELSE mantissa,
                  1, -fracLen)

\* x || dflt: the default replaces NaN and 0, the falsy numbers.
OrElse(x, dflt) == IF x.nan \/ x.n = 0 THEN dflt ELSE x

(***************************************************************************)
(* HomePage's useMemo: the points computation over the current texts.      *)
(***************************************************************************)
\* parseFloat(text) || dflt
parsedOr(text, dflt) == OrElse(parseFloat(text), Num(dflt))

usdAmount == parsedOr(usd, 0)
ratePer10k == parsedOr(rate, 0)
bonusX == parsedOr(bonus, 1)

pointsGuard == RPositive(usdAmount) /\ RPositive(ratePer10k)

\* The ratio upside down.
basePointsInverted ==
    IF pointsGuard THEN RMul(usdAmount, RDiv(ratePer10k, Num(10000)))
    ELSE Num(0)

basePoints ==
    IF pointsGuard THEN RMul(usdAmount, RDiv(Num(10000), ratePer10k))
    ELSE Num(0)

totalPoints == IF pointsGuard THEN RMul(basePoints, bonusX) ELSE Num(0)

effectivePerUsd == IF pointsGuard THEN RDiv(totalPoints, usdAmount) ELSE Num(0)

(***************************************************************************)
(* HomePage: the state and its handlers.                                   *)
(***************************************************************************)
TypeOK ==
    /\ lastEvent \in {"init", "usd", "rate", "bonus", "date", "today"}
    /\ ~usdAmount.nan /\ ~ratePer10k.nan /\ ~bonusX.nan
    /\ ~basePoints.nan /\ ~totalPoints.nan /\ ~effectivePerUsd.nan

Init ==
    /\ usd = <<"1", "0", "0", "0">>
    /\ rate = ToFixed4(BASE_RATE)
    /\ bonus = <<"2", ".", "0">>
    /\ sacrificeDate = <<"2", "0", "2", "5", "-", "1", "1", "-", "1", "1">>
    /\ lastEvent = "init"

\* onChange of the amount, rate and bonus inputs
setUsd(value) ==
    /\ usd' = value
    /\ lastEvent' = "usd"
    /\ UNCHANGED <<rate, bonus, sacrificeDate>>

setRate(value) ==
    /\ rate' = value
    /\ lastEvent' = "rate"
    /\ UNCHANGED <<usd, bonus, sacrificeDate>>

setBonus(value) ==
    /\ bonus' = value
    /\ lastEvent' = "bonus"
    /\ UNCHANGED <<usd, rate, sacrificeDate>>

\* An invalid date blanking the rate field.
handleDateChangeBlanking(value) ==
    /\ sacrificeDate' = value
    /\ LET computed == Computed(value)
       IN rate' = IF computed # Null THEN ToFixed4(computed) ELSE <<>>
    /\ lastEvent' = "date"
    /\ UNCHANGED <<usd, bonus>>

handleDateChange(value) ==
    /\ sacrificeDate' = value
    /\ LET computed == Computed(value)
       IN rate' = IF computed # Null THEN ToFixed4(computed) ELSE rate
    /\ lastEvent' = "date"
    /\ UNCHANGED <<usd, bonus>>

\* The button setting the date and leaving the rate.
handleUseTodayDateOnly(today) ==
    /\ sacrificeDate' = ToISODate(today)
    /\ lastEvent' = "today"
    /\ UNCHANGED <<usd, rate, bonus>>

\* today is the clock reading new Date() returns
handleUseToday(today) ==
    LET iso == ToISODate(today)
        computed == Computed(iso)
    IN /\ sacrificeDate' = iso
       /\ rate' = IF computed # Null THEN ToFixed4(computed) ELSE rate
       /\ lastEvent' = "today"
       /\ UNCHANGED <<usd, bonus>>

Next ==
    \/ \E value \in AmountTexts : setUsd(value)
    \/ \E value \in RateTexts : setRate(value)
    \/ \E value \in BonusTexts : setBonus(value)
    \/ \E value \in DateInputs : handleDateChange(value)
    \/ \E today \in ClockTimes : handleUseToday(today)

Spec == Init /\ [][Next]_vars

(***************************************************************************)
(* The dates and numbers the properties name.                              *)
(***************************************************************************)
Date_2025_12_02 == DaysFromCivil(2025, 12, 2) * secPerDay
Date_2025_12_03 == DaysFromCivil(2025, 12, 3) * secPerDay
Date_2026_01_09 == DaysFromCivil(2026, 1, 9) * secPerDay

Text_2025_12_02 == <<"2", "0", "2", "5", "-", "1", "2", "-", "0", "2">>
Text_2025_12_03 == <<"2", "0", "2", "5", "-", "1", "2", "-", "0", "3">>
Text_2026_01_09 == <<"2", "0", "2", "6", "-", "0", "1", "-", "0", "9">>

Rate_1_0000 == DecNorm(<<1>>, 0)
Rate_1_0625 == DecNorm(<<625, 1>>, 1)
Rate_10_0115 == DecNorm(<<115, 10>>, 1)

DecMin(x, y) == IF DecLess(y, x) THEN y ELSE x

\* The selected date, and whether a date handler has just run.
date == Parsed(sacrificeDate)
DateEvent == lastEvent \in {"date", "today"}

\* Whole days from the flat-end date to the selected date.
DaysSinceFlatEnd == (date.time - Date_2025_12_02) \div secPerDay

\* min(MAX_RATE, BASE_RATE * (1 + DAILY_DECAY)^n) for the days of the growth
\* period, evaluated once.
GrowthDays == (Date_2026_01_09 - Date_2025_12_02) \div secPerDay

CompoundTable ==
    [n \in 1..GrowthDays |-> DecMul(BASE_RATE, Pow(DecAdd(One, DAILY_DECAY), n))]
    @@ <<>>

\* C1: for every valid date d with 2025-12-02 < d <= 2026-01-09,
\* computeRateForDate returns min(MAX_RATE, BASE_RATE * (1 + DAILY_DECAY)^n),
\* n the whole number of days from 2025-12-02 to d.
C1_GrowthFormula ==
    (date.valid /\ Date_2025_12_02 < date.time /\ date.time <= Date_2026_01_09)
    => Computed(sacrificeDate)
         = DecMin(MAX_RATE, CompoundTable[DaysSinceFlatEnd])

\* A date handler has run on 2026-01-08, day 37 of the growth: 9.4226.
C1_Witness ==
    /\ DateEvent
    /\ date.valid /\ DaysSinceFlatEnd = 37
    /\ rate = <<"9", ".", "4", "2", "2", "6">>

\* C2: for every valid date on or before 2025-12-02, before the window
\* start 2025-11-11 or in the flat period, computeRateForDate returns
\* exactly the base rate 1.
C2_FlatRate ==
    (date.valid /\ date.time <= Date_2025_12_02)
    => Computed(sacrificeDate) = Rate_1_0000

\* The date handler has run on the flat-end date itself.
C2_Witness ==
    /\ lastEvent = "date"
    /\ sacrificeDate = Text_2025_12_02
    /\ rate = <<"1", ".", "0", "0", "0", "0">>

\* C3: for every valid date on or after 2026-01-09 computeRateForDate returns
\* exactly 10.0115, and the compounded value of the end date, 1.0625^38, is
\* not below the cap.
C3_CappedFromEnd ==
    /\ (date.valid /\ date.time >= Date_2026_01_09)
       => Computed(sacrificeDate) = Rate_10_0115
    /\ GrowthDays = 38
    /\ DecLeq(Rate_10_0115, CompoundTable[GrowthDays])

\* The date handler has run on the end date itself.
C3_Witness ==
    /\ lastEvent = "date"
    /\ sacrificeDate = Text_2026_01_09
    /\ rate = <<"1", "0", ".", "0", "1", "1", "5">>

\* C4 as stated: on 2025-12-03 the number of elapsed growth days is 0 and
\* computeRateForDate returns 1.0000.
C4_AsStated ==
    sacrificeDate = Text_2025_12_03
    => /\ decayDays(date) = 0
       /\ Computed(sacrificeDate) = Rate_1_0000

\* C4 as amended: on 2025-12-03, the day after the flat-end date, the number
\* of elapsed growth days is 1 and computeRateForDate returns
\* 1.0000 * 1.0625^1 = 1.0625.
C4_FirstGrowthDay ==
    sacrificeDate = Text_2025_12_03
    => /\ decayDays(date) = 1
       /\ Computed(sacrificeDate) = Rate_1_0625

\* A date handler has run on 2025-12-03 and the rate field shows 1.0625.
C4_Witness ==
    /\ DateEvent
    /\ date.valid /\ date.time = Date_2025_12_03
    /\ rate = <<"1", ".", "0", "6", "2", "5">>

\* C5: computeRateForDate is non-decreasing over the valid dates: when a
\* valid date is followed by a valid date that is not earlier, the rate of
\* the second is not below the rate of the first.
C5_Monotone ==
    [][(Parsed(sacrificeDate).valid /\ Parsed(sacrificeDate').valid
        /\ Parsed(sacrificeDate).time <= Parsed(sacrificeDate').time)
       => DecLeq(Computed(sacrificeDate), Computed(sacrificeDate'))]_vars

\* A date handler has run on a date whose rate lies strictly between the
\* base rate and the cap.
C5_Witness ==
    /\ DateEvent
    /\ date.valid
    /\ DecLess(BASE_RATE, Computed(sacrificeDate))
    /\ DecLess(Computed(sacrificeDate), MAX_RATE)

\* C6: for an empty or unparsable date text computeRateForDate returns null,
\* never a number, and a date handler that has run on such a text has left
\* the rate text as it was.
C6_InvalidDateKeepsRate ==
    [][/\ sacrificeDate' \in InvalidDates => Computed(sacrificeDate') = Null
       /\ (lastEvent' \in {"date", "today"} /\ sacrificeDate' \in InvalidDates)
          => rate' = rate]_vars

\* The date handler has run on the empty text, after the rate field had been
\* filled from the end of the schedule.
C6_Witness ==
    /\ lastEvent = "date"
    /\ sacrificeDate = <<>>
    /\ rate = <<"1", "0", ".", "0", "1", "1", "5">>

\* C7: basePoints = usdAmount * 10000 / ratePer10k when usdAmount > 0 and
\* ratePer10k > 0; otherwise basePoints, totalPoints and effectivePerUsd
\* are all 0.
C7_BasePoints ==
    IF usdAmount.n > 0 /\ ratePer10k.n > 0
    THEN basePoints = RDiv(RMul(usdAmount, Num(10000)), ratePer10k)
    ELSE basePoints = Num(0) /\ totalPoints = Num(0) /\ effectivePerUsd = Num(0)

\* 1000 USD at the overridden rate 2.5: 4,000,000 base points.
C7_Witness ==
    /\ usd = <<"1", "0", "0", "0">>
    /\ rate = <<"2", ".", "5">>
    /\ basePoints = Num(4000000)

\* C8 as stated: for usdAmount > 0, ratePer10k > 0 and every multiplier
\* b >= 0 parsed from the bonus text, 0 included, totalPoints is
\* basePoints * b, and only an unparsable or absent bonus text is replaced
\* by the default 1.
C8_AsStated ==
    LET b == parseFloat(bonus)
    IN /\ (~b.nan /\ b.n >= 0 /\ usdAmount.n > 0 /\ ratePer10k.n > 0)
          => totalPoints = RMul(basePoints, b)
       /\ ~b.nan => bonusX = b

\* C9 as stated: whatever the texts, the parsed amount, rate and bonus are
\* not negative, and neither is any of the three point figures.
C9_AsStated ==
    /\ usdAmount.n >= 0 /\ ratePer10k.n >= 0 /\ bonusX.n >= 0
    /\ basePoints.n >= 0 /\ totalPoints.n >= 0 /\ effectivePerUsd.n >= 0

\* For every input date with a rate r: r.toFixed(4), the number the points
\* computation reads from that text, and r rounded to 4 decimals; evaluated
\* once.
RoundedTable ==
    [s \in ValidDates |->
        [text    |-> ToFixed4(computeRateForDate(s)),
         fed     |-> parsedOr(ToFixed4(computeRateForDate(s)), 0),
         rounded |-> RNorm(Units4(computeRateForDate(s)), 1, -4)]] @@ <<>>

\* C10: a date handler that has run on a valid date has set the rate text
\* to the schedule rate of that date rounded to 4 decimals, whatever the
\* rate text was, and the points computation reads that rounded rate from
\* it; a manual rate edit has set the rate text and left the date; an amount
\* or bonus edit has left both.
C10_RateFollowsLastEvent ==
    [][/\ (lastEvent' \in {"date", "today"} /\ sacrificeDate' \in ValidDates)
          => /\ rate' = RoundedTable[sacrificeDate'].text
             /\ RoundedTable[sacrificeDate'].fed
                  = RoundedTable[sacrificeDate'].rounded
       /\ lastEvent' = "rate"
          => rate' \in RateTexts /\ sacrificeDate' = sacrificeDate
       /\ lastEvent' \in {"usd", "bonus"}
          => rate' = rate /\ sacrificeDate' = sacrificeDate]_vars

\* The button has set the date, and the rate field, whatever it held, now
\* holds a schedule rate of the growth period.
C10_Witness ==
    /\ lastEvent = "today"
    /\ date.valid /\ DaysSinceFlatEnd > 0
    /\ rate = ToFixed4(Computed(sacrificeDate))
    /\ rate \notin RateTexts

====
